---------------------------- MODULE Spec2Model ----------------------------
(***************************************************************************)
(* Model of the tournament-creation form (AddTournamentForm.tsx) and of    *)
(* the round-robin scheduler it calls.                                     *)
(*                                                                         *)
(* JavaScript strings are sequences of one-character strings, so that      *)
(* String.split, String.includes and slugify are computed, not assumed.    *)
(* Several browser sessions (Clients) run the form against one shared      *)
(* document store.                                                         *)
(***************************************************************************)
EXTENDS Integers, Sequences, FiniteSets, TLC

\* ------------------------------------------------------------------ bounds

\* Longest players list the user is made to type (one past the form's limit).
MaxEntries == 9

\* The browser sessions that use the form concurrently.
Clients == {1, 2}

\* ------------------------------------------------------------ JS strings

EmptyStr == <<>>

\* The form's separator of player names.
Semicolon == ";"

\* String.prototype.includes(ch) for a one-character needle.
Includes(s, ch) == \E i \in 1..Len(s) : s[i] = ch

RECURSIVE SplitAcc(_, _, _, _)
SplitAcc(s, i, cur, acc) ==
    IF i > Len(s) THEN Append(acc, cur)
    ELSE IF s[i] = Semicolon THEN SplitAcc(s, i + 1, EmptyStr, Append(acc, cur))
    ELSE SplitAcc(s, i + 1, Append(cur, s[i]), acc)

\* Mutant: a split that drops trailing empty pieces, as Java's does.
RECURSIVE SplitDropTrailingEmpty(_)
SplitDropTrailingEmpty(s) ==
    LET parts == SplitAcc(s, 1, EmptyStr, <<>>)
    IN  IF Len(parts) > 1 /\ parts[Len(parts)] = EmptyStr
        THEN SplitDropTrailingEmpty(SubSeq(s, 1, Len(s) - 1))
        ELSE parts

\* value.split(";"): the pieces between the separators; "" splits to [""].
Split(s) == SplitAcc(s, 1, EmptyStr, <<>>)

\* ------------------------------------------------------------------ slugify

\* slugify's options.remove: /[*+~.()'"!:@]/g
RemoveChars == {"*", "+", "~", ".", "(", ")", "'", "\"", "!", ":", "@"}

\* options.lower: String.toLowerCase on the letters the titles use.
LowerChar(ch) ==
    CASE ch = "A" -> "a"
      [] ch = "B" -> "b"
      [] ch = "G" -> "g"
      [] ch = "O" -> "o"
      [] OTHER -> ch

\* Per character: the replacement character becomes a space, then the
\* characters of options.remove are dropped.
RECURSIVE StripChars(_)
StripChars(s) ==
    IF s = EmptyStr THEN EmptyStr
    ELSE LET ch == IF Head(s) = "-" THEN " " ELSE Head(s)
         IN  IF ch \in RemoveChars THEN StripChars(Tail(s))
             ELSE <<ch>> \o StripChars(Tail(s))

RECURSIVE TrimLeft(_)
TrimLeft(s) ==
    IF s # EmptyStr /\ Head(s) = " " THEN TrimLeft(Tail(s)) ELSE s

RECURSIVE TrimRight(_)
TrimRight(s) ==
    IF s # EmptyStr /\ s[Len(s)] = " " THEN TrimRight(SubSeq(s, 1, Len(s) - 1))
    ELSE s

\* slug.replace(/\s+/g, "-"): each run of spaces becomes one dash.
RECURSIVE Dashes(_)
Dashes(s) ==
    IF s = EmptyStr THEN EmptyStr
    ELSE IF Head(s) = " "
         THEN <<"-">> \o Dashes(TrimLeft(s))
         ELSE <<Head(s)>> \o Dashes(Tail(s))

\* slugify(value, {lower: true, remove: /[*+~.()'"!:@]/g})
Slugify(s) ==
    LET d == Dashes(TrimRight(TrimLeft(StripChars(s))))
    IN  [i \in 1..Len(d) |-> LowerChar(d[i])]

\* ---------------------------------------------------------------- scheduler

\* The synthetic placeholder that stands for "bye" in the circle.
ByePlaceholder == [id |-> -1, name |-> EmptyStr, points |-> 0]

IsEven(n) == n % 2 = 0

\* Step 1: an odd player count gets the placeholder appended.
Circle(players) ==
    IF IsEven(Len(players)) THEN players ELSE Append(players, ByePlaceholder)

\* Step 4: position 0 stays, position 1 takes the occupant of the last
\* position, every other occupant moves up by one.
Rotate(c) ==
    [p \in 1..Len(c) |->
        IF p = 1 THEN c[1]
        ELSE IF p = 2 THEN c[Len(c)]
        ELSE c[p - 1]]

RECURSIVE CircleAt(_, _)
CircleAt(c, r) == IF r = 0 THEN c ELSE Rotate(CircleAt(c, r - 1))

\* Step 3: the positions (0-based) paired in one round, in generation order:
\* the fixed position with the opposite slot, then outside-in.
Slots(n) ==
    [k \in 1..(n \div 2) |->
        IF k = 1 THEN <<0, n \div 2>> ELSE <<k - 1, n - (k - 1)>>]

\* One output Pair; a pairing with the placeholder is a bye: player2 absent.
MakePair(pid, a, b) ==
    IF b = ByePlaceholder THEN [id |-> pid, player1 |-> a]
    ELSE IF a = ByePlaceholder THEN [id |-> pid, player1 |-> b]
    ELSE [id |-> pid, player1 |-> a, player2 |-> b]

\* Steps 3, 5: the pairs of the round played on circle c.
RoundPairs(c) ==
    LET sl == Slots(Len(c))
    IN  [k \in 1..Len(sl) |-> MakePair(k - 1, c[sl[k][1] + 1], c[sl[k][2] + 1])]

\* schedule(players): rounds r = 0 .. N'-2, Round.id = r + 1.
roundRobinTournament(players) ==
    LET c0 == Circle(players)
    IN  [r \in 1..(Len(c0) - 1) |->
            [id |-> r, pairs |-> RoundPairs(CircleAt(c0, r - 1))]]

\* ------------------------------------------------------------- form inputs

\* schema.title: .min(3)
MinTitleLen == 3

\* schema.players: between 4 and 8 entries
MinPlayers == 4
MaxPlayers == 8

\* schema.pointSystem: z.enum
PointSystems == {"football", "chess", "basketball"}

\* The Select before a choice is made.
Unselected == "undefined"

\* useUser() before sign-in (undefined: its sub is never read), and the
\* signed-in user of a session.
NoUser == [present |-> FALSE, sub |-> "undefined"]
UserOf(c) == [present |-> TRUE, sub |-> ToString(c)]

\* Titles the user types: the empty default, one too short, two that slugify
\* alike, one with a space, one that slugifies to nothing.
Titles ==
    { EmptyStr,
      <<"g", "o">>,
      <<"G", "o", "!">>,
      <<"g", "o", ".">>,
      <<"A", " ", "b">>,
      <<"!", "!", "!">> }

Letters == <<"a", "b", "c", "d", "e", "f", "g", "h", "i", "j", "k", "l">>

NameList(n) == [i \in 1..n |-> <<Letters[i]>>]

RECURSIVE Join(_)
Join(entries) ==
    IF Len(entries) = 0 THEN EmptyStr
    ELSE IF Len(entries) = 1 THEN entries[1]
    ELSE entries[1] \o <<Semicolon>> \o Join(Tail(entries))

\* Players strings the user types: 1 .. MaxEntries names, the empty default,
\* lists with an empty entry, a list with a trailing separator.
PlayersInputs ==
    {Join(NameList(n)) : n \in 1..MaxEntries}
    \cup {EmptyStr}
    \cup {Join([NameList(n) EXCEPT ![2] = EmptyStr]) : n \in {4, 5}}
    \cup {Join(NameList(4)) \o <<Semicolon>>}

PointSystemInputs == {Unselected, "chess"}

\* Session 1 is the session under study and types every input above; the
\* other sessions compete with it for a slug: a title that slugifies like one
\* of session 1's, and a short, an even and an odd players list.
TitlesOf(c) == IF c = 1 THEN Titles ELSE {EmptyStr, <<"g", "o", ".">>}

PlayersInputsOf(c) ==
    IF c = 1 THEN PlayersInputs ELSE {Join(NameList(n)) : n \in {3, 4, 7}}

\* ------------------------------------------------------------------- state

VARIABLES
    title,       \* title[c]: the title field of session c's form
    slug,        \* slug[c]: the slug state (useState) of session c
    pc,          \* pc[c]: where session c's submission stands, with its locals
    toast,       \* toast[c]: the last notification shown to session c
    dialogOpen,  \* dialogOpen[c]: the dialog holding the form is open
    refreshed,   \* refreshed[c]: router.refresh() was called
    store        \* the document store: path -> document data

vars == <<title, slug, pc, toast, dialogOpen, refreshed, store>>

Idle == [st |-> "idle"]

\* ------------------------------------------------------------- validation

\* schema.title min(3)
TitleLongEnough(t) == Len(t) >= MinTitleLen

\* Mutant: the validation never sets the slug state.
SetSlugOnValidateKeepsOld(old, t) == old

\* The refine's synchronous prefix: the value it hands to setSlug.
SetSlugOnValidate(old, t) == IF Len(t) = 0 THEN EmptyStr ELSE Slugify(t)

\* doc(db, "tournaments", newSlug) throws on an empty document id, before the
\* try block: the validation rejects instead of returning.
DocRefThrows(t) == Len(t) > 0 /\ Slugify(t) = EmptyStr

\* Mutant: the refine without its check that every entry is non-empty.
PlayersValidNoEmptyCheck(v) ==
    /\ Includes(v, Semicolon)
    /\ Len(Split(v)) >= MinPlayers
    /\ Len(Split(v)) <= MaxPlayers

\* schema.players: includes(";") and the refine on the split value
PlayersValid(v) ==
    /\ Includes(v, Semicolon)
    /\ Len(Split(v)) >= MinPlayers
    /\ Len(Split(v)) <= MaxPlayers
    /\ \A i \in 1..Len(Split(v)) : Len(Split(v)[i]) > 0

PointSystemValid(ps) == ps \in PointSystems

\* What the resolver decides without the store.
StaticValid(t, v, ps) ==
    /\ TitleLongEnough(t)
    /\ Len(t) # 0
    /\ ~DocRefThrows(t)
    /\ PlayersValid(v)
    /\ PointSystemValid(ps)

\* --------------------------------------------------------------- documents

TournamentPath(s) == <<"tournaments", s>>
RoundPath(s, rid) == <<"tournaments", s, "rounds", ToString(rid)>>
PairPath(s, rid, pid) ==
    <<"tournaments", s, "rounds", ToString(rid), "pairs", ToString(pid)>>

\* tournamentSnapshot.exists()
Exists(st, s) == TournamentPath(s) \in DOMAIN st

\* ---------------------------------------------------------------- onSubmit

\* Mutant: onSubmit without its sign-in check.
UserRejectedNever(u) == FALSE

\* if (!user)
UserRejected(u) == ~u.present

\* Mutant: ids counted from 1.
FormattedPlayersIdFromOne(v) ==
    LET parts == Split(v)
    IN  [i \in 1..Len(parts) |-> [id |-> i, name |-> parts[i], points |-> 0]]

\* Mutant: the index never reaches the id.
FormattedPlayersSameId(v) ==
    LET parts == Split(v)
    IN  [i \in 1..Len(parts) |-> [id |-> 0, name |-> parts[i], points |-> 0]]

\* players.split(";").map((player, i) => ({id: i, name: player, points: 0}))
FormattedPlayers(v) ==
    LET parts == Split(v)
    IN  [i \in 1..Len(parts) |-> [id |-> i - 1, name |-> parts[i], points |-> 0]]

\* Mutant: case 6 missing from the switch, so six players take the default.
NumberOfRoundsSixAsDefault(n) ==
    CASE n = 8 \/ n = 7 -> 7
      [] n = 5 -> 5
      [] OTHER -> 3

\* switch (formattedPlayers.length)
NumberOfRounds(n) ==
    CASE n = 8 \/ n = 7 -> 7
      [] n = 6 \/ n = 5 -> 5
      [] OTHER -> 3

\* The tournament object (its timestamp, a clock reading, is left out).
Tournament(s, t, u, fp, ps) ==
    [slug |-> s, title |-> t, userSub |-> u.sub, players |-> fp,
     pointSystem |-> ps]

\* round.pairs.forEach: one batch.set per pair
PairWrites(s, round) ==
    [k \in 1..Len(round.pairs) |->
        <<PairPath(s, round.id, round.pairs[k].id), round.pairs[k]>>]

\* rounds.forEach: the round's document, then its pairs
RECURSIVE RoundWrites(_, _)
RoundWrites(s, rounds) ==
    IF Len(rounds) = 0 THEN <<>>
    ELSE <<<<RoundPath(s, rounds[1].id), [id |-> rounds[1].id]>>>>
         \o PairWrites(s, rounds[1])
         \o RoundWrites(s, Tail(rounds))

\* The batch.set calls of onSubmit, in order.
BatchWrites(tournament, rounds) ==
    <<<<TournamentPath(tournament.slug), tournament>>>>
    \o RoundWrites(tournament.slug, rounds)

\* Mutant: the writes sent one by one, only the first one landing.
ApplyBatchFirstWriteOnly(st, writes) ==
    [p \in DOMAIN st \cup {writes[1][1]} |->
        IF p = writes[1][1] THEN writes[1][2] ELSE st[p]]

\* batch.commit(): every write applied at once, a later set of a path winning.
ApplyBatch(st, writes) ==
    LET paths == {writes[i][1] : i \in 1..Len(writes)}
        last(p) == CHOOSE i \in 1..Len(writes) :
                      /\ writes[i][1] = p
                      /\ \A j \in (i + 1)..Len(writes) : writes[j][1] # p
    IN  [p \in DOMAIN st \cup paths |->
            IF p \in paths THEN writes[last(p)][2] ELSE st[p]]

\* onSubmit(values) up to its await, for the closure's user and slug.
OnSubmitLocals(u, s, values) ==
    LET fp == FormattedPlayers(values.players)
        rounds == roundRobinTournament(fp)
        tournament == Tournament(s, values.title, u, fp, values.pointSystem)
    IN  [st |-> "committing", user |-> u, slug |-> s, values |-> values,
         formattedPlayers |-> fp,
         numberOfRounds |-> NumberOfRounds(Len(fp)),
         rounds |-> rounds,
         batch |-> BatchWrites(tournament, rounds)]

\* ------------------------------------------------------------------ actions

Init ==
    /\ title = [c \in Clients |-> EmptyStr]
    /\ slug = [c \in Clients |-> EmptyStr]
    /\ pc = [c \in Clients |-> Idle]
    /\ toast = [c \in Clients |-> "none"]
    /\ dialogOpen = [c \in Clients |-> TRUE]
    /\ refreshed = [c \in Clients |-> FALSE]
    /\ store = <<>>

\* A change of the title field: the field value, then (mode onChange) the
\* resolver, whose refine calls setSlug before its first await; the render
\* that follows is flushed before the next event is handled.
EditTitle(c, t) ==
    /\ dialogOpen[c]
    /\ t # title[c]
    /\ title' = [title EXCEPT ![c] = t]
    /\ slug' = [slug EXCEPT ![c] = SetSlugOnValidate(slug[c], t)]
    /\ UNCHANGED <<pc, toast, dialogOpen, refreshed, store>>

\* The submit event: form.handleSubmit(onSubmit) of the current render, so
\* onSubmit closes over that render's user and slug; the resolver starts on
\* the current field values (players and point system as typed before).
Submit(c, u, v, ps) ==
    /\ dialogOpen[c]
    /\ pc[c].st = "idle"
    /\ slug' = [slug EXCEPT ![c] = SetSlugOnValidate(slug[c], title[c])]
    /\ pc' = [pc EXCEPT ![c] =
                IF StaticValid(title[c], v, ps)
                THEN [st |-> "validating", user |-> u, slug |-> slug[c],
                      values |-> [title |-> title[c], players |-> v,
                                  pointSystem |-> ps]]
                ELSE Idle]
    /\ UNCHANGED <<title, toast, dialogOpen, refreshed, store>>

\* getDoc settles and the resolver returns; with no errors handleSubmit calls
\* onSubmit, which runs to its await.
ValidationDone(c, lookup) ==
    /\ pc[c].st = "validating"
    /\ LET values == pc[c].values
           unique == lookup = "snapshot" /\ ~Exists(store, Slugify(values.title))
       IN  IF ~unique
           THEN /\ pc' = [pc EXCEPT ![c] = Idle]
                /\ UNCHANGED toast
           ELSE IF UserRejected(pc[c].user)
           THEN /\ pc' = [pc EXCEPT ![c] = Idle]
                /\ toast' = [toast EXCEPT ![c] = "You must be logged in"]
           ELSE /\ pc' = [pc EXCEPT ![c] =
                            OnSubmitLocals(pc[c].user, pc[c].slug, values)]
                /\ toast' = [toast EXCEPT ![c] = "Creating..."]
    /\ UNCHANGED <<title, slug, dialogOpen, refreshed, store>>

\* The store commits the batch.
CommitSucceeds(c) ==
    /\ pc[c].st = "committing"
    /\ store' = ApplyBatch(store, pc[c].batch)
    /\ pc' = [pc EXCEPT ![c] = [pc[c] EXCEPT !.st = "committed"]]
    /\ UNCHANGED <<title, slug, toast, dialogOpen, refreshed>>

\* await batchPromise resolves: the success toast, closeRef click, refresh.
AfterCommit(c) ==
    /\ pc[c].st = "committed"
    /\ toast' = [toast EXCEPT ![c] = "Created!"]
    /\ dialogOpen' = [dialogOpen EXCEPT ![c] = FALSE]
    /\ refreshed' = [refreshed EXCEPT ![c] = TRUE]
    /\ pc' = [pc EXCEPT ![c] = Idle]
    /\ UNCHANGED <<title, slug, store>>

\* Mutant: the close and the refresh run whether or not the commit succeeded.
CommitFailsClosesDialog(c) ==
    /\ pc[c].st = "committing"
    /\ toast' = [toast EXCEPT ![c] = "Error creating."]
    /\ dialogOpen' = [dialogOpen EXCEPT ![c] = FALSE]
    /\ refreshed' = [refreshed EXCEPT ![c] = TRUE]
    /\ pc' = [pc EXCEPT ![c] = Idle]
    /\ UNCHANGED <<title, slug, store>>

\* The commit fails: the promise rejects, the error toast, console.error.
CommitFails(c) ==
    /\ pc[c].st = "committing"
    /\ toast' = [toast EXCEPT ![c] = "Error creating."]
    /\ pc' = [pc EXCEPT ![c] = Idle]
    /\ UNCHANGED <<title, slug, dialogOpen, refreshed, store>>

Next ==
    \E c \in Clients :
        \/ \E t \in TitlesOf(c) : EditTitle(c, t)
        \/ \E u \in {NoUser, UserOf(c)}, v \in PlayersInputsOf(c),
              ps \in PointSystemInputs : Submit(c, u, v, ps)
        \/ \E lookup \in {"snapshot", "error"} : ValidationDone(c, lookup)
        \/ CommitSucceeds(c)
        \/ AfterCommit(c)
        \/ CommitFails(c)

Spec == Init /\ [][Next]_vars

\* ------------------------------------------------------- claims: vocabulary

\* Session c has run the scheduler and built its batch.
Scheduled(c) == pc[c].st \in {"committing", "committed"}

\* The entries of a players string, counted and cut without split: one more
\* than its separators, each running from one separator to the next.
SemiPos(v) == {i \in 1..Len(v) : v[i] = Semicolon}
NumEntries(v) == Cardinality(SemiPos(v)) + 1
EntryStart(v, i) ==
    IF i = 1 THEN 1
    ELSE 1 + CHOOSE q \in SemiPos(v) :
                 Cardinality({x \in SemiPos(v) : x < q}) = i - 2
EntryEnd(v, i) ==
    IF i = NumEntries(v) THEN Len(v)
    ELSE (CHOOSE q \in SemiPos(v) :
              Cardinality({x \in SemiPos(v) : x < q}) = i - 1) - 1
EntryOf(v, i) == SubSeq(v, EntryStart(v, i), EntryEnd(v, i))

\* The positions <<round, pair>> of a schedule.
PairIdx(rounds) ==
    UNION {{<<r, k>> : k \in 1..Len(rounds[r].pairs)} : r \in 1..Len(rounds)}
PairAt(rounds, x) == rounds[x[1]].pairs[x[2]]
IsBye(p) == "player2" \notin DOMAIN p
Joins(p, a, b) == ~IsBye(p) /\ p.player1.id = a /\ p.player2.id = b
ByeIdx(rounds) == {x \in PairIdx(rounds) : IsBye(PairAt(rounds, x))}

\* The ids in the slots of one round, one element per occupied slot.
RoundSlots(round) ==
    {<<k, 1>> : k \in 1..Len(round.pairs)}
    \cup {<<k, 2>> : k \in {j \in 1..Len(round.pairs) : ~IsBye(round.pairs[j])}}
SlotId(round, x) ==
    IF x[2] = 1 THEN round.pairs[x[1]].player1.id
    ELSE round.pairs[x[1]].player2.id

\* The tournament records of the store.
TournamentPaths == {p \in DOMAIN store : Len(p) = 2}

\* ------------------------------------------------------------------ claims

\* C1: for N = 4..8 players with ids 0..N-1, every unordered pair of distinct
\* ids is joined by exactly one Pair of the schedule onSubmit obtains, which
\* has C(N,2) real pairings in all.
C1_EveryPairOnce ==
    \A c \in Clients :
        Scheduled(c) =>
            LET n == NumEntries(pc[c].values.players)
                rounds == pc[c].rounds
            IN  /\ n \in MinPlayers..MaxPlayers
                /\ \A a \in 0..(n - 1) : \A b \in (a + 1)..(n - 1) :
                     Cardinality({x \in PairIdx(rounds) :
                        \/ Joins(PairAt(rounds, x), a, b)
                        \/ Joins(PairAt(rounds, x), b, a)}) = 1
                /\ 2 * Cardinality(PairIdx(rounds) \ ByeIdx(rounds))
                     = n * (n - 1)

C1_Witness ==
    \E c \in Clients :
        /\ Scheduled(c)
        /\ NumEntries(pc[c].values.players) = 7
        /\ Cardinality(PairIdx(pc[c].rounds) \ ByeIdx(pc[c].rounds)) = 21

\* C2: in every round of every schedule, no player id occupies more than one
\* slot (player1 or player2, a bye counting for its player1).
C2_OncePerRound ==
    \A c \in Clients :
        Scheduled(c) =>
            \A r \in 1..Len(pc[c].rounds) :
                LET round == pc[c].rounds[r]
                IN  \A x \in RoundSlots(round) : \A y \in RoundSlots(round) :
                        x # y => SlotId(round, x) # SlotId(round, y)

C2_Witness ==
    \E c \in Clients :
        /\ Scheduled(c)
        /\ Len(pc[c].rounds) = 5
        /\ Cardinality(RoundSlots(pc[c].rounds[5])) = 5

\* C3: the schedule has N-1 rounds for even N and N rounds for odd N, with
\* ids 1..R in order, and that is the count of the numberOfRounds switch.
C3_RoundCount ==
    \A c \in Clients :
        Scheduled(c) =>
            LET n == NumEntries(pc[c].values.players)
                rounds == pc[c].rounds
            IN  /\ Len(rounds) = IF n % 2 = 0 THEN n - 1 ELSE n
                /\ \A r \in 1..Len(rounds) : rounds[r].id = r
                /\ pc[c].numberOfRounds = Len(rounds)

C3_Witness ==
    \E c \in Clients :
        /\ Scheduled(c)
        /\ NumEntries(pc[c].values.players) = 6
        /\ pc[c].numberOfRounds = 5
        /\ Len(pc[c].rounds) = 5

\* C4: for odd N every round has exactly one bye, every player has exactly
\* one bye over the schedule and the placeholder is in no Pair; for even N
\* no Pair is a bye.
C4_Byes ==
    \A c \in Clients :
        Scheduled(c) =>
            LET n == NumEntries(pc[c].values.players)
                rounds == pc[c].rounds
            IN  /\ \A x \in PairIdx(rounds) :
                     /\ PairAt(rounds, x).player1 # ByePlaceholder
                     /\ ~IsBye(PairAt(rounds, x)) =>
                            PairAt(rounds, x).player2 # ByePlaceholder
                /\ n % 2 = 0 => ByeIdx(rounds) = {}
                /\ n % 2 = 1 =>
                     /\ \A r \in 1..Len(rounds) :
                          Cardinality({x \in ByeIdx(rounds) : x[1] = r}) = 1
                     /\ \A i \in 0..(n - 1) :
                          Cardinality({x \in ByeIdx(rounds) :
                              PairAt(rounds, x).player1.id = i}) = 1

C4_Witness ==
    \E c \in Clients :
        /\ Scheduled(c)
        /\ NumEntries(pc[c].values.players) = 5
        /\ Cardinality(ByeIdx(pc[c].rounds)) = 5

\* Session c has a submission past the static checks of the resolver.
InFlight(c) == pc[c].st \in {"validating", "committing", "committed"}

\* The step is one of session c's submission.
StepOf(c) == pc'[c] # pc[c]

\* C5: when onSubmit runs with no signed-in user nothing else happens: no
\* schedule and no batch are built, the store, the dialog and the page stay
\* as they are; no record of the store is owned by the absent user.
C5_UnauthenticatedRejected ==
    /\ [](\A c \in Clients : Scheduled(c) => pc[c].user.present)
    /\ [](\A p \in TournamentPaths : store[p].userSub # NoUser.sub)
    /\ [][\A c \in Clients :
            (pc[c].st = "validating" /\ ~pc[c].user.present /\ StepOf(c)) =>
                /\ pc'[c] = Idle
                /\ store' = store
                /\ dialogOpen' = dialogOpen
                /\ refreshed' = refreshed]_vars

C5_Witness ==
    \E c \in Clients :
        /\ toast[c] = "You must be logged in"
        /\ pc[c] = Idle
        /\ dialogOpen[c]
        /\ ~refreshed[c]

\* The record at path p has every Round and Pair document of its schedule.
RecordComplete(p) ==
    LET rounds == roundRobinTournament(store[p].players)
    IN  \A r \in 1..Len(rounds) :
            /\ RoundPath(p[2], rounds[r].id) \in DOMAIN store
            /\ store[RoundPath(p[2], rounds[r].id)] = [id |-> rounds[r].id]
            /\ \A k \in 1..Len(rounds[r].pairs) :
                 LET q == PairPath(p[2], rounds[r].id, rounds[r].pairs[k].id)
                 IN  q \in DOMAIN store /\ store[q] = rounds[r].pairs[k]

\* C6: in every state of the store a slug has its tournament record with all
\* the Round and Pair documents of its schedule, or no document at all; a
\* failed commit leaves the store as it was.
C6_AllOrNothing ==
    /\ [](\A p \in DOMAIN store : TournamentPath(p[2]) \in DOMAIN store)
    /\ [](\A p \in TournamentPaths : RecordComplete(p))
    /\ [][\A c \in Clients :
            (pc[c].st = "committing" /\ pc'[c].st = "idle") => store' = store]_vars

C6_Witness ==
    \E p \in TournamentPaths :
        /\ Len(store[p].players) = 8
        /\ PairPath(p[2], 7, 3) \in DOMAIN store
        /\ \E c \in Clients : toast[c] = "Error creating."

\* C7: a players string is past validation only with 4 to 8 entries, none
\* empty; the scheduler's list has those entries in order, ids 0.., points 0;
\* no other list is in a record of the store.
C7_SchedulerPrecondition ==
    /\ \A c \in Clients :
         InFlight(c) =>
            LET v == pc[c].values.players
                n == NumEntries(v)
            IN  /\ n \in MinPlayers..MaxPlayers
                /\ \A i \in 1..n : EntryStart(v, i) <= EntryEnd(v, i)
                /\ Scheduled(c) =>
                     /\ Len(pc[c].formattedPlayers) = n
                     /\ \A i \in 1..n :
                          pc[c].formattedPlayers[i] =
                             [id |-> i - 1, name |-> EntryOf(v, i), points |-> 0]
    /\ \A p \in TournamentPaths :
         LET ps == store[p].players
         IN  /\ Len(ps) \in MinPlayers..MaxPlayers
             /\ \A i \in 1..Len(ps) :
                  ps[i].id = i - 1 /\ ps[i].points = 0 /\ Len(ps[i].name) > 0

C7_Witness ==
    \E c \in Clients :
        /\ Scheduled(c)
        /\ Len(pc[c].formattedPlayers) = 8
        /\ pc[c].formattedPlayers[8] = [id |-> 7, name |-> <<"h">>, points |-> 0]

\* C8: the slug of a submission, of every path of its batch and of every
\* record of the store is the slug of the title submitted with it, never the
\* empty slug, whatever edits and validations came before or go on meanwhile.
C8_SlugOfSubmittedTitle ==
    /\ \A c \in Clients :
         InFlight(c) =>
            /\ pc[c].slug = Slugify(pc[c].values.title)
            /\ pc[c].slug # EmptyStr
            /\ Scheduled(c) =>
                 /\ pc[c].batch[1][2].title = pc[c].values.title
                 /\ \A i \in 1..Len(pc[c].batch) :
                      pc[c].batch[i][1][2] = Slugify(pc[c].values.title)
    /\ \A p \in TournamentPaths :
         /\ store[p].slug = p[2]
         /\ p[2] = Slugify(store[p].title)
         /\ p[2] # EmptyStr

C8_Witness ==
    \E c \in Clients :
        /\ pc[c].st = "committed"
        /\ pc[c].values.title = <<"A", " ", "b">>
        /\ title[c] = <<"G", "o", "!">>
        /\ slug[c] = <<"g", "o">>
        /\ TournamentPath(<<"a", "-", "b">>) \in DOMAIN store
        /\ TournamentPath(<<"g", "o">>) \in DOMAIN store

\* The batch of session c writes every Round and Pair of its schedule.
BatchComplete(c) ==
    LET rounds == pc[c].rounds
        writes == {pc[c].batch[i] : i \in 2..Len(pc[c].batch)}
    IN  /\ Len(rounds) >= MinPlayers - 1
        /\ \A r \in 1..Len(rounds) :
             /\ Len(rounds[r].pairs) >= MinPlayers \div 2
             /\ \E w \in writes : w[1] = RoundPath(pc[c].slug, rounds[r].id)
             /\ \A k \in 1..Len(rounds[r].pairs) :
                  \E w \in writes :
                     /\ w[1] = PairPath(pc[c].slug, rounds[r].id,
                                        rounds[r].pairs[k].id)
                     /\ w[2] = rounds[r].pairs[k]

\* C9: the whole schedule is in the batch when the commit is attempted; the
\* dialog closes and the page refreshes only once the commit has succeeded; a
\* failed commit shows the error and neither closes nor refreshes.
C9_Ordering ==
    /\ [](\A c \in Clients : pc[c].st = "committing" => BatchComplete(c))
    /\ [][\A c \in Clients :
            (dialogOpen'[c] # dialogOpen[c] \/ refreshed'[c] # refreshed[c]) =>
                /\ pc[c].st = "committed"
                /\ Exists(store, pc[c].slug)
                /\ ~dialogOpen'[c] /\ refreshed'[c]]_vars
    /\ [][\A c \in Clients :
            (pc[c].st = "committing" /\ pc'[c].st = "idle") =>
                /\ toast'[c] = "Error creating."
                /\ dialogOpen'[c] /\ ~refreshed'[c]]_vars

C9_Witness ==
    \E c \in Clients :
        /\ toast[c] = "Error creating."
        /\ pc[c] = Idle
        /\ dialogOpen[c]
        /\ ~refreshed[c]
        /\ \E d \in Clients : ~dialogOpen[d] /\ refreshed[d]

\* C10: no committed batch writes to a slug that already has a tournament
\* record, under any interleaving of the sessions' lookups and commits.
C10_NoOverwrite ==
    [][\A c \in Clients :
         (pc[c].st = "committing" /\ pc'[c].st = "committed") =>
             ~Exists(store, pc[c].slug)]_vars

=============================================================================
